---- MODULE Spec2Model ----
(***************************************************************************)
(* Model of src/main.py: the pricing function calculate_retail_book_price  *)
(* and the form's submit handler.                                          *)
(*                                                                         *)
(* Python floats are IEEE-754 binary64 values.  They are modelled bit for  *)
(* bit: a float is a record [s, m, e] standing for s * m * 2^e, with a     *)
(* 53-bit mantissa m kept as a little-endian sequence of 15-bit limbs, and *)
(* every arithmetic operation rounds to nearest, ties to even.  Exponent   *)
(* overflow, subnormals, infinities, NaN and the sign of zero are outside  *)
(* the model: no input of the bounded sets below comes near them.          *)
(***************************************************************************)
EXTENDS Integers, Sequences, FiniteSets

(***************************************************************************)
(* Let(E, F) is F(E) with E evaluated once, whatever the number of uses F  *)
(* makes of it.                                                            *)
(***************************************************************************)
Let(E, F(_)) == CHOOSE r \in {F(v) : v \in {E}} : TRUE

Let2(E1, E2, F(_, _)) == CHOOSE r \in {F(v, w) : v \in {E1}, w \in {E2}} : TRUE

(***************************************************************************)
(* Natural numbers of arbitrary size: sequences of limbs, least            *)
(* significant first, no leading zero limb; << >> is 0.                    *)
(***************************************************************************)
\* 15-bit limbs: a product of two limbs plus carries stays below 2^31
Base == 8 * 4096

LimbBits == 3 + 12

\* the 52 stored bits of a binary64 mantissa and the implicit leading one
MantBits == 52 + 1

RECURSIVE Pow2(_)
Pow2(n) == IF n = 0 THEN 1 ELSE 2 * Pow2(n - 1)

BNormV(a) ==
  LET nz == {i \in 1..Len(a) : a[i] # 0}
  IN  IF nz = {} THEN << >>
      ELSE SubSeq(a, 1, CHOOSE i \in nz : \A j \in nz : j <= i)

BNorm(a) == Let(a, BNormV)

RECURSIVE BFromInt(_)
BFromInt(n) == IF n = 0 THEN << >> ELSE <<n % Base>> \o BFromInt(n \div Base)

Limb(a, i) == IF i <= Len(a) THEN a[i] ELSE 0

RECURSIVE BAddC(_, _, _, _)
BAddC(a, b, i, c) ==
  IF i > Len(a) /\ i > Len(b)
  THEN (IF c = 0 THEN << >> ELSE <<c>>)
  ELSE Let(Limb(a, i) + Limb(b, i) + c,
           LAMBDA t : <<t % Base>> \o BAddC(a, b, i + 1, t \div Base))

BAddV(a, b) == BAddC(a, b, 1, 0)

BAdd(a, b) == Let2(a, b, BAddV)

RECURSIVE BSubC(_, _, _, _)
BSubC(a, b, i, c) ==
  IF i > Len(a) THEN << >>
  ELSE Let(Limb(a, i) - Limb(b, i) - c,
           LAMBDA t : IF t < 0 THEN <<t + Base>> \o BSubC(a, b, i + 1, 1)
                      ELSE <<t>> \o BSubC(a, b, i + 1, 0))

BSubV(a, b) == BNorm(BSubC(a, b, 1, 0))

\* a - b, for a >= b
BSub(a, b) == Let2(a, b, BSubV)

RECURSIVE BCmpAt(_, _, _)
BCmpAt(a, b, i) ==
  IF i = 0 THEN 0
  ELSE IF a[i] > b[i] THEN 1
  ELSE IF a[i] < b[i] THEN -1
  ELSE BCmpAt(a, b, i - 1)

BCmpV(a, b) ==
  IF Len(a) > Len(b) THEN 1
  ELSE IF Len(a) < Len(b) THEN -1
  ELSE BCmpAt(a, b, Len(a))

\* -1, 0 or 1 as a < b, a = b, a > b
BCmp(a, b) == Let2(a, b, BCmpV)

RECURSIVE BMulSmallC(_, _, _, _)
BMulSmallC(a, k, i, c) ==
  IF i > Len(a)
  THEN (IF c = 0 THEN << >> ELSE <<c>>)
  ELSE Let(a[i] * k + c,
           LAMBDA t : <<t % Base>> \o BMulSmallC(a, k, i + 1, t \div Base))

BMulSmallV(a, k) == IF k = 0 THEN << >> ELSE BMulSmallC(a, k, 1, 0)

\* a * k, for 0 <= k < Base
BMulSmall(a, k) == Let2(a, k, BMulSmallV)

Zeros(n) == [i \in 1..n |-> 0]

\* p * Base^n
BShlLimbs(p, n) == IF p = << >> THEN << >> ELSE Zeros(n) \o p

RECURSIVE BMulAt(_, _, _)
BMulAt(a, b, j) ==
  IF j > Len(b) THEN << >>
  ELSE BAdd(Let(BMulSmall(a, b[j]), LAMBDA p : BShlLimbs(p, j - 1)),
            BMulAt(a, b, j + 1))

BMulV(a, b) == IF a = << >> \/ b = << >> THEN << >> ELSE BMulAt(a, b, 1)

BMul(a, b) == Let2(a, b, BMulV)

\* quotient and remainder of a divided by k, for 0 < k < Base; the limbs
\* above i are done and left the remainder r
RECURSIVE BDivSmallAt(_, _, _, _)
BDivSmallAt(a, k, i, r) ==
  IF i = 0 THEN [q |-> << >>, r |-> r]
  ELSE Let(r * Base + a[i],
           LAMBDA t : Let(BDivSmallAt(a, k, i - 1, t % k),
                          LAMBDA rest : [q |-> rest.q \o <<t \div k>>,
                                         r |-> rest.r]))

BDivSmallV(a, k) ==
  Let(BDivSmallAt(a, k, Len(a), 0), LAMBDA d : [q |-> BNorm(d.q), r |-> d.r])

BDivSmall(a, k) == Let2(a, k, BDivSmallV)

RECURSIVE BitLenInt(_)
BitLenInt(n) == IF n = 0 THEN 0 ELSE 1 + BitLenInt(n \div 2)

BBitLenV(a) ==
  IF a = << >> THEN 0 ELSE LimbBits * (Len(a) - 1) + BitLenInt(a[Len(a)])

BBitLen(a) == Let(a, BBitLenV)

BShlV(a, n) ==
  IF a = << >> THEN << >>
  ELSE Zeros(n \div LimbBits) \o BMulSmall(a, Pow2(n % LimbBits))

\* a * 2^n
BShl(a, n) == Let2(a, n, BShlV)

BShrV(a, n) ==
  IF n \div LimbBits >= Len(a) THEN << >>
  ELSE BDivSmall(SubSeq(a, n \div LimbBits + 1, Len(a)), Pow2(n % LimbBits)).q

\* floor(a / 2^n)
BShr(a, n) == Let2(a, n, BShrV)

BOdd(a) == a # << >> /\ a[1] % 2 = 1

\* q = floor(a / 2^n) rounded to nearest, ties to even
BRoundUp(a, n, q) ==
  Let(BCmp(BSub(a, BShl(q, n)), BShl(<<1>>, n - 1)),
      LAMBDA c : IF c > 0 \/ (c = 0 /\ BOdd(q)) THEN BAdd(q, <<1>>) ELSE q)

BShrRoundV(a, n) ==
  IF n = 0 THEN a ELSE Let(BShr(a, n), LAMBDA q : BRoundUp(a, n, q))

\* the integer nearest to a / 2^n, ties to the even one
BShrRound(a, n) == Let2(a, n, BShrRoundV)

(***************************************************************************)
(* binary64 floats.  Zero is [s |-> 0, m |-> << >>, e |-> 0]; every other  *)
(* float has s in {-1, 1} and 2^52 <= m < 2^53, so equal floats are equal  *)
(* records.                                                                *)
(***************************************************************************)
FZero == [s |-> 0, m |-> << >>, e |-> 0]

\* M of L bits, L > MantBits, rounded to MantBits bits
FRoundDown(s, M, e, L) ==
  Let(BShrRound(M, L - MantBits),
      LAMBDA q : IF BBitLen(q) > MantBits
                 THEN [s |-> s, m |-> BShr(q, 1), e |-> e + (L - MantBits) + 1]
                 ELSE [s |-> s, m |-> q, e |-> e + (L - MantBits)])

FRoundV(s, M, e) ==
  IF s = 0 \/ M = << >> THEN FZero
  ELSE Let(BBitLen(M),
           LAMBDA L : IF L <= MantBits
                      THEN [s |-> s, m |-> BShl(M, MantBits - L),
                            e |-> e - (MantBits - L)]
                      ELSE FRoundDown(s, M, e, L))

\* the float nearest to s * M * 2^e (ties to even), M any natural number
FRound(s, M, e) ==
  CHOOSE r \in {FRoundV(s1, M1, e1) : s1 \in {s}, M1 \in {M}, e1 \in {e}} : TRUE

Sign(n) == IF n > 0 THEN 1 ELSE IF n < 0 THEN -1 ELSE 0

Abs(n) == IF n < 0 THEN -n ELSE n

\* int -> float conversion (exact below 2^53)
FFromInt(n) == FRound(Sign(n), BFromInt(Abs(n)), 0)

FNegV(x) == [x EXCEPT !.s = -x.s]

FNeg(x) == Let(x, FNegV)

FMulV(x, y) == FRound(x.s * y.s, BMul(x.m, y.m), x.e + y.e)

FMul(x, y) == Let2(x, y, FMulV)

\* the sum of s * X * 2^e and t * Y * 2^e, for X, Y > 0
FAddAligned(s, X, t, Y, e) ==
  IF s = t THEN FRound(s, BAdd(X, Y), e)
  ELSE Let(BCmp(X, Y),
           LAMBDA c : IF c = 0 THEN FZero
                      ELSE IF c > 0 THEN FRound(s, BSub(X, Y), e)
                      ELSE FRound(t, BSub(Y, X), e))

Min(a, b) == IF a < b THEN a ELSE b

FAddV(x, y) ==
  IF x.s = 0 THEN y
  ELSE IF y.s = 0 THEN x
  ELSE Let2(BShl(x.m, x.e - Min(x.e, y.e)), BShl(y.m, y.e - Min(x.e, y.e)),
            LAMBDA X, Y : FAddAligned(x.s, X, y.s, Y, Min(x.e, y.e)))

FAdd(x, y) == Let2(x, y, FAddV)

FSub(x, y) == FAdd(x, FNeg(y))

GuardBits == LimbBits + 2

\* the quotient d.q of the shifted mantissa keeps at least 55 bits, and a
\* sticky bit records a non-zero remainder d.r
FDivIntV(x, n) ==
  IF x.s = 0 THEN FZero
  ELSE Let(BDivSmall(BShl(x.m, GuardBits), Abs(n)),
           LAMBDA d : FRound(x.s * Sign(n),
                             BAdd(BMulSmall(d.q, 2),
                                  IF d.r = 0 THEN << >> ELSE <<1>>),
                             x.e - GuardBits - 1))

\* x / n for an int n with 0 < |n| < Base: the correctly rounded quotient
FDivInt(x, n) == Let2(x, n, FDivIntV)

\* -1, 0 or 1 as x < y, x = y, x > y
FCmp(x, y) == Sign(FSub(x, y).s)

RECURSIVE Pow5(_)
Pow5(k) == IF k = 0 THEN 1 ELSE 5 * Pow5(k - 1)

FScale(x, k) == IF x.s = 0 THEN FZero ELSE [x EXCEPT !.e = x.e + k]

\* the decimal numeral with digits n and k fractional digits (k <= 6), as
\* written in the source or typed into the form: the float nearest to
\* n / 10^k.  n / 2^k is exact, and the division by 5^k rounds once.
FDec(n, k) == FDivInt(Let(FFromInt(n), LAMBDA x : FScale(x, -k)), Pow5(k))

\* hundredths of round(x, 2): the integer nearest to 100 * x taken on the
\* exact binary value of x, ties to even
HundredthsV(x) ==
  IF x.e >= 0 THEN BShl(BMulSmall(x.m, 100), x.e)
  ELSE BShrRound(BMulSmall(x.m, 100), -x.e)

Hundredths(x) == Let(x, HundredthsV)

Round2V(x) ==
  IF x.s = 0 THEN FZero ELSE FDivInt(FRound(x.s, Hundredths(x), 0), 100)

\* round(x, 2): the float nearest to the two-decimal value
Round2(x) == Let(x, Round2V)

(***************************************************************************)
(* calculate_retail_book_price                                             *)
(***************************************************************************)
format_coefficients ==
  [c \in {"iPhone 15", "iPhone 15 Plus", "iPhone 15 Pro", "iPhone 15 Pro Max"} |->
     CASE c = "iPhone 15"         -> FDec(10, 1)
       [] c = "iPhone 15 Plus"    -> FDec(108, 2)
       [] c = "iPhone 15 Pro"     -> FDec(125, 2)
       [] c = "iPhone 15 Pro Max" -> FDec(14, 1)]

format_coefficients1 ==
  [c \in {"128 Gb", "256 Gb", "512 Gb", "1 Tb"} |->
     CASE c = "128 Gb" -> FDec(10, 1)
       [] c = "256 Gb" -> FDec(112, 2)
       [] c = "512 Gb" -> FDec(128, 2)
       [] c = "1 Tb"   -> FDec(145, 2)]

\* the two ValueErrors: the message text, the field name the text gives and
\* the codes the text quotes
PrimaryFormatError ==
  [kind  |-> "ValueError",
   text  |-> "format_code must be 'Default', 'Pro' or 'Max'",
   field |-> "format_code",
   codes |-> {"Default", "Pro", "Max"}]

SecondaryFormatError ==
  [kind  |-> "ValueError",
   text  |-> "format_code must be '128 Gb', '256 Gb' or '512 Gb', '1 Tb",
   field |-> "format_code",
   codes |-> {"128 Gb", "256 Gb", "512 Gb", "1 Tb"}]

\* 0.0 / 0 and x / 0 raise ZeroDivisionError("float division by zero")
DivisionError ==
  [kind  |-> "ZeroDivisionError",
   text  |-> "float division by zero",
   field |-> "",
   codes |-> {}]

base_quantity == 100

materials_cost_base == 2100000

labor_cost_base == 1200000

amortization_cost_base == 300000

overhead_prod_percent == 20

overhead_admin_percent == 15

publisher_margin_percent == 20

retailer_markup_percent == 1

\* the tier of the materials discount, in hundredths
materials_discount(quantity) ==
  IF quantity >= 100 /\ quantity < 499 THEN FDec(9, 1)
  ELSE IF quantity >= 500 /\ quantity < 999 THEN FDec(85, 2)
  ELSE IF quantity >= 1000 THEN FDec(8, 1)
  ELSE FDec(10, 1)

quantity_factor(quantity) == FDivInt(FFromInt(quantity), base_quantity)

materials_cost(quantity, format_factor, pages_factor) ==
  FMul(FMul(FMul(FMul(FFromInt(materials_cost_base), quantity_factor(quantity)),
                 format_factor),
            pages_factor),
       materials_discount(quantity))

base_cost_total(quantity, format_factor, pages_factor) ==
  LET labor_cost        == FMul(FFromInt(labor_cost_base), quantity_factor(quantity))
      amortization_cost == FMul(FFromInt(amortization_cost_base),
                                quantity_factor(quantity))
  IN  FAdd(FAdd(materials_cost(quantity, format_factor, pages_factor), labor_cost),
           amortization_cost)

\* x * percent / 100, evaluated left to right
Percent(x, percent) == FDivInt(FMul(x, FFromInt(percent)), 100)

\* full_cost_total without the administrative overhead
full_cost_total_no_admin(base) == FAdd(base, Percent(base, overhead_prod_percent))

full_cost_total(base) ==
  LET overhead_production == Percent(base, overhead_prod_percent)
      overhead_admin      == Percent(base, overhead_admin_percent)
      overhead_total      == FAdd(overhead_production, overhead_admin)
  IN  FAdd(base, overhead_total)

wholesale_price_no_vat(full_cost_per_unit) ==
  LET publisher_profit == Percent(full_cost_per_unit, publisher_margin_percent)
  IN  FAdd(full_cost_per_unit, publisher_profit)

wholesale_price_with_vat(no_vat, vat_percent) ==
  FMul(no_vat, FAdd(FFromInt(1), FDivInt(vat_percent, 100)))

retail_price(with_vat) ==
  LET retailer_markup == Percent(with_vat, retailer_markup_percent)
  IN  FAdd(with_vat, retailer_markup)

\* final_price with the discount taken off as an amount, not as a share
final_price_amount(retail, discount_percent) ==
  FSub(retail, FDivInt(discount_percent, 100))

\* final_price with the sign of the discount slipped
final_price_surcharge(retail, discount_percent) ==
  FMul(retail, FAdd(FFromInt(1), FDivInt(discount_percent, 100)))

\* final_price with the division misplaced: (1 - discount_percent) / 100
final_price_misplaced(retail, discount_percent) ==
  FMul(retail, FDivInt(FSub(FFromInt(1), discount_percent), 100))

final_price(retail, discount_percent) ==
  FMul(retail, FSub(FFromInt(1), FDivInt(discount_percent, 100)))

full_cost_per_unit(full, quantity) == FDivInt(full, quantity)

NoError == [kind |-> "none", text |-> "", field |-> "", codes |-> {}]

\* CheckFormats without the second test: the lookup of line 39 then raises
\* KeyError for an unknown secondary code
CheckFormatsPrimaryOnly(format_code, format_code1) ==
  IF format_code \notin DOMAIN format_coefficients THEN PrimaryFormatError
  ELSE IF format_code1 \notin DOMAIN format_coefficients1
  THEN [kind |-> "KeyError", text |-> format_code1, field |-> "", codes |-> {}]
  ELSE NoError

\* the two membership tests, in the order of the source
CheckFormats(format_code, format_code1) ==
  IF format_code \notin DOMAIN format_coefficients THEN PrimaryFormatError
  ELSE IF format_code1 \notin DOMAIN format_coefficients1 THEN SecondaryFormatError
  ELSE NoError

(***************************************************************************)
(* The submit handler of the form.  A text field holds a sequence of       *)
(* characters; int() and float() accept surrounding blanks, one sign and   *)
(* decimal digits, float() also one decimal point.  (Exponents, "inf",     *)
(* "nan" and underscores need characters the bounded texts do not use.)    *)
(***************************************************************************)
Digits == <<"0", "1", "2", "3", "4", "5", "6", "7", "8", "9">>

IsDigit(c) == \E i \in 1..10 : Digits[i] = c

DigitValue(c) == (CHOOSE i \in 1..10 : Digits[i] = c) - 1

RECURSIVE Strip(_)
Strip(t) ==
  IF t = << >> THEN t
  ELSE IF Head(t) = " " THEN Strip(Tail(t))
  ELSE IF t[Len(t)] = " " THEN Strip(SubSeq(t, 1, Len(t) - 1))
  ELSE t

Unsigned(t) == IF t # << >> /\ Head(t) \in {"+", "-"} THEN Tail(t) ELSE t

Negative(t) == t # << >> /\ Head(t) = "-"

\* the number the first n characters of t write in decimal
RECURSIVE DigitsValueTo(_, _)
DigitsValueTo(t, n) ==
  IF n = 0 THEN 0 ELSE 10 * DigitsValueTo(t, n - 1) + DigitValue(t[n])

DigitsValue(t) == DigitsValueTo(t, Len(t))

AllDigits(t) == \A i \in 1..Len(t) : IsDigit(t[i])

\* int(text): ok is FALSE where Python raises ValueError
ParseInt(text) ==
  LET t == Strip(text)
      u == Unsigned(t)
  IN  IF u # << >> /\ AllDigits(u)
      THEN [ok |-> TRUE, value |-> IF Negative(t) THEN -DigitsValue(u) ELSE DigitsValue(u)]
      ELSE [ok |-> FALSE, value |-> 0]

Without(t, i) == SubSeq(t, 1, i - 1) \o SubSeq(t, i + 1, Len(t))

\* float(text): ok is FALSE where Python raises ValueError
ParseFloat(text) ==
  LET t      == Strip(text)
      u      == Unsigned(t)
      points == {i \in 1..Len(u) : u[i] = "."}
      k      == IF points = {} THEN 0 ELSE Len(u) - (CHOOSE i \in points : TRUE)
      d      == IF points = {} THEN u ELSE Without(u, CHOOSE i \in points : TRUE)
  IN  IF Cardinality(points) <= 1 /\ d # << >> /\ AllDigits(d)
      THEN [ok |-> TRUE,
            value |-> IF Negative(t) THEN FNeg(FDec(DigitsValue(d), k))
                      ELSE FDec(DigitsValue(d), k)]
      ELSE [ok |-> FALSE, value |-> FZero]

\* st.error(...) of lines 175, 177, 179, 213 and 215: the message (in
\* English) and the field the message names, "" when it names none
QuantityMessage ==
  [kind |-> "error", text |-> "The number of copies must be greater than 0",
   field |-> "quantity"]

VatMessage ==
  [kind |-> "error", text |-> "VAT cannot be negative", field |-> "vat_percent"]

DiscountMessage ==
  [kind |-> "error", text |-> "The discount must be from 0 to 100%",
   field |-> "discount_percent"]

NumericMessage ==
  [kind |-> "error", text |-> "Please enter correct numeric values", field |-> ""]

CalculationMessage ==
  [kind |-> "error", text |-> "Error in the calculation", field |-> ""]

SuccessMessage ==
  [kind |-> "success", text |-> "The calculation succeeded", field |-> ""]

\* the range checks of lines 174-179 on the parsed values: the message of
\* the first check that fails, NoMessage when all pass
NoMessage == [kind |-> "none", text |-> "", field |-> ""]

Validation(quantity_val, vat_val, discount_val) ==
  IF quantity_val <= 0 THEN QuantityMessage
  ELSE IF vat_val.s < 0 THEN VatMessage
  ELSE IF discount_val.s < 0 \/ FCmp(discount_val, FFromInt(100)) > 0
  THEN DiscountMessage
  ELSE NoMessage

\* the except clauses of lines 212-215
Caught(err) == IF err.kind = "ValueError" THEN NumericMessage ELSE CalculationMessage

(***************************************************************************)
(* State.  The function runs in four steps; pc is "call" when a call is    *)
(* pending, then "costs", "unit" and "wholesale", and "returned" or        *)
(* "raised" at its end.  In the form, pc is "form" before the first        *)
(* submit, "rejected" after a submit that did not call the function and    *)
(* "shown" after one that did and rendered its outcome.                    *)
(* quantity ... discount_percent are the arguments of the call, local the  *)
(* function's locals and result its outcome; form is the submitted form    *)
(* and shown the page below it; prev is the call or submit before the      *)
(* latest one.                                                             *)
(***************************************************************************)
VARIABLES pc, quantity, format_code, format_code1, vat_percent,
          discount_percent, local, result, form, shown, prev

vars == <<pc, quantity, format_code, format_code1, vat_percent,
          discount_percent, local, result, form, shown, prev>>

args == <<quantity, format_code, format_code1, vat_percent, discount_percent>>

\* Arguments of the direct calls.  EdgeWidth is the width of the band of
\* quantities taken around each tier edge; MaxTinyDiscount is the number of
\* discounts of the finest grain, 0.00001 % each, taken next to 0 %.
EdgeWidth == 1

MaxTinyDiscount == 1

TierEdges == {100, 499, 500, 999, 1000}

Quantities ==
  {-7, 0, 1, 7} \cup {e + d : e \in TierEdges, d \in (-EdgeWidth)..EdgeWidth}

PrimaryCodes == DOMAIN format_coefficients \cup {"Pro"}

SecondaryCodes == DOMAIN format_coefficients1 \cup {"64 Gb"}

VatPercents == {FDec(0, 0), FDec(20, 0), FDec(25, 0)}

DiscountPercents == {FDec(0, 0), FDec(50, 0), FDec(100, 0)}

\* arguments of the pairs of calls
PairQuantities == {1, 7, 100, 499}

PairPrimaryCodes == {"iPhone 15", "iPhone 15 Pro Max"}

PairSecondaryCodes == {"128 Gb", "256 Gb"}

PairDiscountPercents ==
  DiscountPercents \cup {FDec(j, 5) : j \in 1..MaxTinyDiscount}

\* the widgets' initial values (lines 128, 135, 144, 151, 157)
DefaultForm ==
  [quantity         |-> <<"1", "0", "0">>,
   format_code1     |-> "128 Gb",
   format_code      |-> "iPhone 15",
   vat_percent      |-> <<"2", "0">>,
   discount_percent |-> <<"0">>]

QuantityTexts ==
  {<<"1", "0", "0">>, <<"0">>, <<"-", "5">>, <<"x">>, <<"1", "2", ".", "5">>}

VatTexts == {<<"2", "0">>, <<"-", "1">>, <<"x">>}

DiscountTexts ==
  {<<"0">>, <<" ", "1", "2", ".", "5">>, <<"1", "0", "1">>, <<"-", "1">>, << >>}

Forms ==
  [quantity         : QuantityTexts,
   format_code1     : {"128 Gb"},
   format_code      : {"iPhone 15"},
   vat_percent      : VatTexts,
   discount_percent : DiscountTexts]

NoCall == [called |-> FALSE]

NoLocals ==
  [discount |-> FZero, base |-> FZero, unit |-> FZero, with_vat |-> FZero,
   retail |-> FZero, final |-> FZero]

NoResult == [err |-> NoError, value |-> FZero]

Idle ==
  /\ local = NoLocals
  /\ result = NoResult
  /\ form = DefaultForm
  /\ shown = << >>
  /\ prev = NoCall

\* one direct call, arguments of any kind
Init ==
  /\ pc = "call"
  /\ quantity \in Quantities
  /\ format_code \in PrimaryCodes
  /\ format_code1 \in SecondaryCodes
  /\ vat_percent \in VatPercents
  /\ discount_percent \in DiscountPercents
  /\ Idle

\* a direct call that a second one may follow
InitPair ==
  /\ pc = "call"
  /\ quantity \in PairQuantities
  /\ format_code \in PairPrimaryCodes
  /\ format_code1 \in PairSecondaryCodes
  /\ vat_percent \in VatPercents
  /\ discount_percent \in PairDiscountPercents
  /\ Idle

\* the page as first rendered
InitForm ==
  /\ pc = "form"
  /\ quantity = 0
  /\ format_code = ""
  /\ format_code1 = ""
  /\ vat_percent = FZero
  /\ discount_percent = FZero
  /\ Idle

\* lines 16-82: the format checks, the scaling factors and the base costs
BaseCosts ==
  /\ pc = "call"
  /\ IF CheckFormats(format_code, format_code1) # NoError
     THEN /\ result' = [err |-> CheckFormats(format_code, format_code1),
                        value |-> FZero]
          /\ local' = NoLocals
          /\ pc' = "raised"
     ELSE /\ local' = [NoLocals EXCEPT
                         !.discount = materials_discount(quantity),
                         !.base = base_cost_total(quantity,
                                                  format_coefficients[format_code],
                                                  format_coefficients1[format_code1])]
          /\ result' = NoResult
          /\ pc' = "costs"
  /\ UNCHANGED <<args, form, shown, prev>>

\* lines 86-98: overheads, full cost, full cost per unit
FullCost ==
  /\ pc = "costs"
  /\ IF quantity = 0
     THEN /\ result' = [err |-> DivisionError, value |-> FZero]
          /\ pc' = "raised"
          /\ UNCHANGED local
     ELSE /\ local' = [local EXCEPT
                         !.unit = full_cost_per_unit(full_cost_total(local.base),
                                                     quantity)]
          /\ pc' = "unit"
          /\ UNCHANGED result
  /\ UNCHANGED <<args, form, shown, prev>>

\* lines 102-104: publisher's margin and VAT
Wholesale ==
  /\ pc = "unit"
  /\ local' = [local EXCEPT
                 !.with_vat = wholesale_price_with_vat(
                                wholesale_price_no_vat(local.unit), vat_percent)]
  /\ pc' = "wholesale"
  /\ UNCHANGED <<args, result, form, shown, prev>>

\* lines 106-109: retailer's markup and the discount
Retail ==
  /\ pc = "wholesale"
  /\ local' = [local EXCEPT
                 !.retail = retail_price(local.with_vat),
                 !.final = final_price(retail_price(local.with_vat),
                                       discount_percent)]
  /\ pc' = "retail"
  /\ UNCHANGED <<args, result, form, shown, prev>>

\* line 111
Return ==
  /\ pc = "retail"
  /\ result' = [err |-> NoError, value |-> Round2(local.final)]
  /\ pc' = "returned"
  /\ UNCHANGED <<args, local, form, shown, prev>>

calculate_retail_book_price == BaseCosts \/ FullCost \/ Wholesale \/ Retail \/ Return

ThisCall ==
  [called |-> TRUE, quantity |-> quantity, format_code |-> format_code,
   format_code1 |-> format_code1, vat_percent |-> vat_percent,
   discount_percent |-> discount_percent, local |-> local, result |-> result]

\* the caller runs the function again with the discount raised
RaiseDiscount ==
  /\ pc = "returned"
  /\ prev = NoCall
  /\ \E d \in PairDiscountPercents :
       /\ FCmp(discount_percent, d) < 0
       /\ discount_percent' = d
  /\ prev' = ThisCall
  /\ pc' = "call"
  /\ UNCHANGED <<quantity, format_code, format_code1, vat_percent, local,
                 result, form, shown>>

\* the caller runs the function again with the quantity raised
RaiseQuantity ==
  /\ pc = "returned"
  /\ prev = NoCall
  /\ \E q \in PairQuantities :
       /\ quantity < q
       /\ quantity' = q
  /\ prev' = ThisCall
  /\ pc' = "call"
  /\ UNCHANGED <<format_code, format_code1, vat_percent, discount_percent,
                 local, result, form, shown>>

ThisSubmit == [called |-> TRUE, form |-> form, shown |-> shown]

\* lines 166-188: the user fills the form in and presses the button; the
\* page is rendered anew, the texts are parsed and checked, and the function
\* is called when they pass.  A second submit may follow the first.
Submit ==
  /\ pc \in {"form", "rejected", "shown"}
  /\ prev = NoCall
  /\ prev' = IF pc = "form" THEN NoCall ELSE ThisSubmit
  /\ \E f \in Forms :
       LET q == ParseInt(f.quantity)
           v == ParseFloat(f.vat_percent)
           d == ParseFloat(f.discount_percent)
       IN  /\ form' = f
           /\ local' = NoLocals
           /\ result' = NoResult
           /\ IF ~q.ok \/ ~v.ok \/ ~d.ok
              THEN /\ shown' = <<NumericMessage>>
                   /\ pc' = "rejected"
                   /\ UNCHANGED args
              ELSE IF Validation(q.value, v.value, d.value) # NoMessage
              THEN /\ shown' = <<Validation(q.value, v.value, d.value)>>
                   /\ pc' = "rejected"
                   /\ UNCHANGED args
              ELSE /\ shown' = << >>
                   /\ pc' = "call"
                   /\ quantity' = q.value
                   /\ format_code' = f.format_code
                   /\ format_code1' = f.format_code1
                   /\ vat_percent' = v.value
                   /\ discount_percent' = d.value

\* lines 190-215: the outcome of the call is put on the page
Display ==
  /\ pc \in {"returned", "raised"}
  /\ shown' = IF pc = "returned"
              THEN <<SuccessMessage, [kind |-> "metric", value |-> result.value]>>
              ELSE <<Caught(result.err)>>
  /\ pc' = "shown"
  /\ UNCHANGED <<args, local, result, form, prev>>

Next == calculate_retail_book_price

NextPair == calculate_retail_book_price \/ RaiseDiscount \/ RaiseQuantity

NextForm == Submit \/ calculate_retail_book_price \/ Display

Spec == Init /\ [][Next]_vars

SpecPair == InitPair /\ [][NextPair]_vars

SpecForm == InitForm /\ [][NextForm]_vars

(***************************************************************************)
(* Properties                                                              *)
(***************************************************************************)
ValidCodes ==
  /\ format_code \in DOMAIN format_coefficients
  /\ format_code1 \in DOMAIN format_coefficients1

\* the base costs are computed: materials_discount is assigned
Scaled == pc \in {"costs", "unit", "wholesale", "retail", "returned"}

\* the second of two calls that differ in the discount alone has returned
DiscountRaised ==
  /\ pc = "returned"
  /\ prev # NoCall
  /\ prev.quantity = quantity
  /\ FCmp(prev.discount_percent, discount_percent) < 0

\* the second of two calls that differ in the quantity alone has returned
QuantityRaised ==
  /\ pc = "returned"
  /\ prev # NoCall
  /\ prev.discount_percent = discount_percent
  /\ prev.quantity < quantity

\* the rate of C1: half-open bands with no gap
ClaimedDiscount(q) ==
  IF q >= 1000 THEN FDec(8, 1)
  ELSE IF q >= 500 THEN FDec(85, 2)
  ELSE IF q >= 100 THEN FDec(9, 1)
  ELSE FDec(10, 1)

\* C1: for every quantity > 0 the materials discount is the rate of the
\* half-open band the quantity lies in: 0.8 from 1000, 0.85 on [500, 1000),
\* 0.9 on [100, 500) and 1.0 below 100.
C1_HalfOpenBands ==
  (Scaled /\ quantity > 0) => local.discount = ClaimedDiscount(quantity)

\* C2: a call with a primary or a secondary code outside its table ends in
\* ValueError and never returns, whatever the quantity, zero and negative
\* ones included.
C2_FormatClosure ==
  ~ValidCodes =>
    /\ pc \in {"call", "raised"}
    /\ pc = "raised" => result.err.kind = "ValueError"

C2_Witness ==
  /\ pc = "raised"
  /\ quantity = 0
  /\ format_code \in DOMAIN format_coefficients
  /\ format_code1 \notin DOMAIN format_coefficients1
  /\ result.err.kind = "ValueError"

\* C3: a call with valid codes and a quantity <= 0 ends in an error that
\* names quantity as the invalid field, and never returns a price.
C3_QuantityGuard ==
  (ValidCodes /\ quantity <= 0 /\ pc \in {"returned", "raised"}) =>
    /\ pc = "raised"
    /\ result.err.field = "quantity"

\* the stages of C4, in its order and with its constants
ClaimedBase(qf, primaryFactor, secondaryFactor, materialsDiscount) ==
  FAdd(FAdd(FMul(FMul(FMul(FMul(FFromInt(2100000), qf), primaryFactor),
                      secondaryFactor),
                 materialsDiscount),
            FMul(FFromInt(1200000), qf)),
       FMul(FFromInt(300000), qf))

ClaimedFull(base) ==
  FAdd(base, FAdd(FDivInt(FMul(base, FFromInt(20)), 100),
                  FDivInt(FMul(base, FFromInt(15)), 100)))

ClaimedWholesaleWithVat(unit, vat) ==
  FMul(FAdd(unit, FDivInt(FMul(unit, FFromInt(20)), 100)),
       FAdd(FFromInt(1), FDivInt(vat, 100)))

ClaimedRetail(with_vat) ==
  FAdd(with_vat, FDivInt(FMul(with_vat, FFromInt(1)), 100))

ClaimedPrice ==
  Round2(FMul(ClaimedRetail(
                ClaimedWholesaleWithVat(
                  FDivInt(ClaimedFull(
                            ClaimedBase(FDivInt(FFromInt(quantity), 100),
                                        format_coefficients[format_code],
                                        format_coefficients1[format_code1],
                                        local.discount)),
                          quantity),
                  vat_percent)),
              FSub(FFromInt(1), FDivInt(discount_percent, 100))))

\* C4: a call with quantity > 0 and recognized codes returns the value of
\* the fixed pipeline (overhead on the base cost, margin on the unit cost,
\* VAT on the wholesale price, markup on the VAT-inclusive price, discount
\* last) rounded to 2 decimals.
C4_Pipeline ==
  (pc = "returned" /\ quantity > 0) => result.value = ClaimedPrice

C4_Witness ==
  /\ pc = "returned"
  /\ quantity = 1000
  /\ format_code = "iPhone 15 Pro Max"
  /\ format_code1 = "1 Tb"
  /\ vat_percent = FDec(25, 0)
  /\ discount_percent = FDec(50, 0)
  /\ result.value.s = 1

\* C5: the error for an unknown primary code names the primary field and
\* lists exactly the keys of format_coefficients; the error for an unknown
\* secondary code names the secondary field and lists exactly the keys of
\* format_coefficients1.
C5_ErrorNamesFieldAndCodes ==
  (pc = "raised" /\ result.err.kind = "ValueError") =>
    IF format_code \notin DOMAIN format_coefficients
    THEN /\ result.err.field = "format_code"
         /\ result.err.codes = DOMAIN format_coefficients
    ELSE /\ result.err.field = "format_code1"
         /\ result.err.codes = DOMAIN format_coefficients1

\* the scenario of C6: quantity 100, "iPhone 15", "128 Gb", VAT 20 %, first
\* with discount 0 % and then with discount 50 %
HalfPriceScenario ==
  /\ DiscountRaised
  /\ quantity = 100
  /\ format_code = "iPhone 15"
  /\ format_code1 = "128 Gb"
  /\ vat_percent = FDec(20, 0)
  /\ prev.discount_percent = FDec(0, 0)
  /\ discount_percent = FDec(50, 0)

\* C6: in the scenario the price for discount 0 % is positive and the price
\* for discount 50 % is exactly half of it.
C6_HalfPrice ==
  HalfPriceScenario =>
    /\ prev.result.value.s = 1
    /\ FMul(result.value, FFromInt(2)) = prev.result.value

C6_Witness == HalfPriceScenario /\ result.value.s = 1

\* C7 as stated: of two calls that differ in the discount alone, the one
\* with the larger discount returns the strictly smaller price.
C7_StrictlyDecreasing ==
  DiscountRaised => FCmp(result.value, prev.result.value) < 0

\* C7 amended: of two calls that differ in the discount alone, the one with
\* the larger discount never returns the larger price.
C7_NeverIncreasing ==
  DiscountRaised => FCmp(result.value, prev.result.value) <= 0

C7_Witness ==
  /\ DiscountRaised
  /\ result.value.s = 1
  /\ result.value = prev.result.value

\* C8 as stated: with discount 0 the value returned equals the local
\* retail_price exactly.
C8_EqualsRetail ==
  (pc = "returned" /\ discount_percent = FZero) => result.value = local.retail

\* C8 amended: with discount 0 the local final_price equals retail_price
\* exactly, and the value returned is retail_price rounded to 2 decimals.
C8_EqualsRoundedRetail ==
  (pc = "returned" /\ discount_percent = FZero) =>
    /\ local.final = local.retail
    /\ result.value = Round2(local.retail)

C8_Witness ==
  /\ pc = "returned"
  /\ discount_percent = FZero
  /\ quantity > 0
  /\ result.value # local.retail

\* the failure of a submitted form by the taxonomy of C9, in the order the
\* handler meets them
Failure(f) ==
  IF ~ParseInt(f.quantity).ok THEN "quantity unparsable"
  ELSE IF ~ParseFloat(f.vat_percent).ok THEN "VAT unparsable"
  ELSE IF ~ParseFloat(f.discount_percent).ok THEN "discount unparsable"
  ELSE IF ParseInt(f.quantity).value <= 0 THEN "quantity out of range"
  ELSE IF ParseFloat(f.vat_percent).value.s < 0 THEN "VAT out of range"
  ELSE IF \/ ParseFloat(f.discount_percent).value.s < 0
          \/ FCmp(ParseFloat(f.discount_percent).value, FFromInt(100)) > 0
  THEN "discount out of range"
  ELSE "none"

OffendingField(f) ==
  CASE Failure(f) \in {"quantity unparsable", "quantity out of range"} -> "quantity"
    [] Failure(f) \in {"VAT unparsable", "VAT out of range"} -> "vat_percent"
    [] Failure(f) \in {"discount unparsable", "discount out of range"} ->
         "discount_percent"
    [] OTHER -> ""

\* C9: after a submit every failure shows one error message that names the
\* field at fault, different failures show different messages, and the
\* function is called only when the three texts parsed and passed their
\* range checks.
C9_DistinctMessages ==
  /\ pc \in {"call", "costs", "unit", "wholesale", "retail", "returned", "raised", "shown"}
       => Failure(form) = "none"
  /\ pc = "rejected" =>
       /\ Failure(form) # "none"
       /\ Len(shown) = 1
       /\ shown[1].kind = "error"
       /\ shown[1].field = OffendingField(form)
       /\ (prev # NoCall /\ Failure(prev.form) \notin {"none", Failure(form)})
            => prev.shown[1].text # shown[1].text

\* C10: two calls with quantities > 0 of the same materials discount and
\* otherwise equal arguments return the same price.
C10_SamePrice ==
  (QuantityRaised /\ prev.local.discount = local.discount) =>
    result.value = prev.result.value

====
